---- MODULE Spec2Model ----
(***************************************************************************)
(* Model of the wallet client's Verifier (lib/verifier.js) and of the      *)
(* Utils functions it calls (buildTx, deriveAddress, verifyMessage, ...).  *)
(* Every entry point is a synchronous pure function, so the state machine  *)
(* is: idle -> one call of one entry point on inputs drawn from bounded    *)
(* sets -> done, with the call's arguments and its outcome kept as state.  *)
(* Strings are TLA+ strings; hashing, signing and key derivation are       *)
(* modelled as ideal (collision-free, unforgeable) tagged encodings.       *)
(***************************************************************************)
EXTENDS Integers, Sequences, FiniteSets, TLC

VARIABLES pc, call, ret

vars == <<pc, call, ret>>

(* ------------------------------ bounds --------------------------------- *)

\* Largest number of copayers of a wallet (ring size and roster length).
MaxCopayers == 2

\* Largest number of outputs a proposal declares.
MaxOutputs == 2

(* ------------------------- JavaScript values --------------------------- *)

\* The absent value of an optional string field.
Undefined == "<undefined>"

Truthy(s) == s # Undefined /\ s # ""

\* a || b on strings
Or(a, b) == IF Truthy(a) THEN a ELSE b

\* Outcome of a call: a returned boolean or an escaping error.
Return(b) == [kind |-> "return", value |-> b, error |-> "none"]

Throw(e) == [kind |-> "throw", value |-> FALSE, error |-> e]

Returned(r, b) == r.kind = "return" /\ r.value = b

RECURSIVE SumSeq(_)
SumSeq(s) == IF s = <<>> THEN 0 ELSE Head(s) + SumSeq(Tail(s))

Range(s) == {s[i] : i \in DOMAIN s}

(* ------------------------------ Defaults ------------------------------- *)

COIN == 100000000

MAX_TX_FEE == 1 * COIN

(* ------------------------------ Constants ------------------------------ *)

SCRIPT_TYPES == {"P2SH", "P2PKH"}

\* Constants.PATHS.REQUEST_KEY_AUTH: the fixed child path of the key that
\* signs one-time request keys.
REQUEST_KEY_AUTH == "m/1/0"

(* --------------------------- crypto provider --------------------------- *)

\* The signature of text made with the private counterpart of pubKey.
SigOf(text, pubKey) == "sig{" \o text \o "}by{" \o pubKey \o "}"

\* PrivateKey.fromString(priv).toPublicKey().toString()
ToPublicKey(privKey) == "pub(" \o privKey \o ")"

\* new HDPublicKey(xPubKey).deriveChild(path).publicKey
DeriveChild(xPubKey, path) == xPubKey \o "/" \o path

\* Utils.verifyMessage
verifyMessage(text, signature, pubKey) ==
    IF ~Truthy(text) \/ ~Truthy(pubKey) THEN Throw("invalid-usage")
    ELSE IF ~Truthy(signature) THEN Return(FALSE)
    ELSE Return(signature = SigOf(text, pubKey))

\* Utils.getCopayerHash
getCopayerHash(name, xPubKey, requestPubKey) ==
    name \o "|" \o xPubKey \o "|" \o requestPubKey

\* Utils.xPubToCopayerId
xPubToCopayerId(xpub) == "sha256(" \o xpub \o ")"

\* Utils.verifyRequestPubKey
verifyRequestPubKey(requestPubKey, signature, xPubKey) ==
    verifyMessage(requestPubKey, signature, DeriveChild(xPubKey, REQUEST_KEY_AUTH))

(* ----------------------------- credentials ----------------------------- *)

XPub(i) == "xpub" \o ToString(i)

ReqKey(i) == "req" \o ToString(i)

\* A ring entry; the second copayer joined without a request key.
RingEntry(i) ==
    [xPubKey |-> XPub(i),
     requestPubKey |-> IF i = 2 THEN Undefined ELSE ReqKey(i)]

WalletPrivKey == "walletPriv"

\* Complete credentials of an n-copayer wallet of the local copayer 1.
Credentials(n, addressType) ==
    [network |-> "livenet", addressType |-> addressType, m |-> n, n |-> n,
     publicKeyRing |-> [i \in 1..n |-> RingEntry(i)],
     xPubKey |-> XPub(1), walletPrivKey |-> WalletPrivKey]

(* ---------------------------- checkCopayers ---------------------------- *)

\* uniq[copayers.xPubKey]++ : the key is a property of the roster array,
\* which has none, so every entry increments the one cell uniq[undefined].
\* The postfix increment yields the old value as a number and stores it
\* plus one; ToNumber(undefined) is NaN and NaN + 1 is NaN.
ToNumber(v) == IF v = "undefined" THEN "NaN" ELSE v

PlusOne(v) ==
    CASE v = "NaN" -> "NaN"
      [] v = "0" -> "1"
      [] OTHER -> "2"

PostIncrement(v) == [yields |-> ToNumber(v), stores |-> PlusOne(ToNumber(v))]

\* Truthiness of a number: NaN and 0 are falsy.
NumberTruthy(v) == v \notin {"NaN", "0"}

MissingFields(copayer) ==
    \/ ~Truthy(Or(copayer.encryptedName, copayer.name))
    \/ ~Truthy(copayer.xPubKey)
    \/ ~Truthy(copayer.requestPubKey)
    \/ ~Truthy(copayer.signature)

\* The body of the _.each callback for one roster entry; st holds the
\* cell of uniq and the error flag.
CopayerStepNoVerify(copayers, copayer, walletPubKey, st) ==
    IF st.error THEN st
    ELSE [uniq |-> PostIncrement(st.uniq).stores, error |-> MissingFields(copayer)]

CopayerStep(copayers, copayer, walletPubKey, st) ==
    IF st.error THEN st
    ELSE
      LET inc == PostIncrement(st.uniq)
          repeated == NumberTruthy(inc.yields)
          hash == getCopayerHash(Or(copayer.encryptedName, copayer.name),
                                 copayer.xPubKey, copayer.requestPubKey)
          bad == IF MissingFields(copayer) THEN TRUE
                 ELSE ~Returned(verifyMessage(hash, copayer.signature, walletPubKey), TRUE)
      IN [uniq |-> inc.stores, error |-> repeated \/ bad]

RECURSIVE EachCopayer(_, _, _, _)
EachCopayer(copayers, i, walletPubKey, st) ==
    IF i > Len(copayers) THEN st
    ELSE EachCopayer(copayers, i + 1, walletPubKey,
                     CopayerStep(copayers, copayers[i], walletPubKey, st))

checkCopayers(credentials, copayers) ==
    IF ~Truthy(credentials.walletPrivKey) THEN Throw("invalid-usage")
    ELSE
      LET walletPubKey == ToPublicKey(credentials.walletPrivKey)
          st == EachCopayer(copayers, 1, walletPubKey,
                            [uniq |-> "undefined", error |-> FALSE])
      IN IF Len(copayers) # credentials.n THEN Return(FALSE)
         ELSE IF st.error THEN Return(FALSE)
         ELSE IF credentials.xPubKey \notin {copayers[i].xPubKey : i \in DOMAIN copayers}
              THEN Return(FALSE)
         ELSE Return(TRUE)

\* Roster entries a server can return for copayer i.
RosterEntry(i, kind) ==
    LET name == "name" \o ToString(i)
        enc == IF kind = "encrypted" THEN "enc" \o ToString(i) ELSE Undefined
        req == IF kind = "noreq" THEN Undefined ELSE ReqKey(i)
        signer == IF kind = "wrongkey" THEN "pub(other)" ELSE ToPublicKey(WalletPrivKey)
        signed == IF kind = "signedname" THEN name ELSE Or(enc, name)
    IN [name |-> name, encryptedName |-> IF kind = "signedname" THEN "enc" \o ToString(i) ELSE enc,
        xPubKey |-> XPub(i), requestPubKey |-> req,
        signature |-> IF kind = "nosig" THEN Undefined
                      ELSE SigOf(getCopayerHash(signed, XPub(i), ReqKey(i)), signer)]

EntryKinds == {"good", "encrypted", "signedname", "wrongkey", "nosig", "noreq"}

RosterEntries == {RosterEntry(i, k) : i \in 1..MaxCopayers, k \in EntryKinds}

Rosters == UNION {[1..len -> RosterEntries] : len \in 0..MaxCopayers}

(* ------------------------- deriveAddress / checkAddress ---------------- *)

\* An absent object (an undefined changeAddress).
UndefinedObject == [undefined |-> TRUE]

RECURSIVE JoinStrings(_, _)
JoinStrings(s, sep) ==
    IF s = <<>> THEN ""
    ELSE IF Len(s) = 1 THEN s[1]
    ELSE s[1] \o sep \o JoinStrings(Tail(s), sep)

\* Address.createMultisig(publicKeys, m, network).toString()
createMultisig(publicKeys, m, network) ==
    "p2sh(" \o ToString(m) \o "of[" \o JoinStrings(publicKeys, ",") \o "]@" \o network \o ")"

\* Address.fromPublicKey(publicKey, network).toString()
fromPublicKey(publicKey, network) ==
    "p2pkh(" \o publicKey \o "@" \o network \o ")"

\* Utils.deriveAddress; its result carries ok = FALSE when a precondition throws.
deriveAddress(scriptType, publicKeyRing, path, m, network) ==
    LET publicKeys == [i \in DOMAIN publicKeyRing |->
                         DeriveChild(publicKeyRing[i].xPubKey, path)]
        failed(e) == [ok |-> FALSE, error |-> e, address |-> Undefined,
                      path |-> path, publicKeys |-> <<>>]
        derived(a) == [ok |-> TRUE, error |-> "none", address |-> a,
                       path |-> path, publicKeys |-> publicKeys]
    IN IF scriptType \notin SCRIPT_TYPES THEN failed("invalid-usage")
       ELSE IF scriptType = "P2SH" THEN derived(createMultisig(publicKeys, m, network))
       ELSE IF Len(publicKeys) # 1 THEN failed("invalid-usage")
       ELSE derived(fromPublicKey(publicKeys[1], network))

\* _.difference(a, b): the elements of a that are not in b, in a's order.
Difference(a, b) == SelectSeq(a, LAMBDA x : x \notin Range(b))

\* Verifier.checkAddress.  address.publicKeys is an array (absent: empty).
checkAddress(credentials, address) ==
    IF address = UndefinedObject THEN Throw("TypeError")
    ELSE
      LET local == deriveAddress(Or(address.type, credentials.addressType),
                                 credentials.publicKeyRing, address.path,
                                 credentials.m, credentials.network)
      IN IF ~local.ok THEN Throw(local.error)
         ELSE Return(/\ local.address = address.address
                     /\ Len(Difference(local.publicKeys, address.publicKeys)) = 0)

Paths == {"m/0/0", "m/1/5"}

AddressTypes == SCRIPT_TYPES \cup {"P2WSH"}

\* Public-key lists a server can declare for the keys derived at a path.
DeclaredKeys(keys, kind) ==
    CASE kind = "exact" -> keys
      [] kind = "extra" -> Append(keys, "attackerKey")
      [] kind = "substituted" -> [keys EXCEPT ![1] = "attackerKey"]
      [] kind = "dropped" -> Tail(keys)
      [] kind = "absent" -> <<>>

KeyKinds == {"exact", "extra", "substituted", "dropped", "absent"}

\* An address object as declared by the server for the given credentials.
DeclaredAddress(credentials, type, path, addressPath, keyKind) ==
    LET shown == deriveAddress(credentials.addressType, credentials.publicKeyRing,
                               addressPath, credentials.m, credentials.network)
        keys == [i \in DOMAIN credentials.publicKeyRing |->
                   DeriveChild(credentials.publicKeyRing[i].xPubKey, path)]
    IN [address |-> IF shown.ok THEN shown.address ELSE "bogusAddress",
        path |-> path, type |-> type, publicKeys |-> DeclaredKeys(keys, keyKind)]

(* ------------------------------- buildTx ------------------------------- *)

\* A transaction under construction: the inputs as given, and the outputs
\* [script, satoshis] in order.
NoTx == [inputs |-> <<>>, outputs |-> <<>>]

Built(t) == [ok |-> TRUE, error |-> "none", tx |-> t]

BuildFailed(e) == [ok |-> FALSE, error |-> e, tx |-> NoTx]

\* t.to(address, amount) / t.addOutput(new Output({script, satoshis}))
Output(o) ==
    [script |-> IF Truthy(o.script) THEN "script:" \o o.script
                ELSE "payto:" \o o.toAddress,
     satoshis |-> o.amount]

\* t.change(address) after t.fee(fee): the transaction library appends a
\* change output carrying what the inputs leave over the outputs and the
\* declared fee, when that is positive.
WithChange(txp, outputs) ==
    LET available == SumSeq([i \in DOMAIN txp.inputs |-> txp.inputs[i].satoshis])
                     - SumSeq([i \in DOMAIN outputs |-> outputs[i].satoshis])
        changeAmount == available - txp.fee
    IN IF txp.changeAddress # UndefinedObject /\ changeAmount > 0
       THEN Append(outputs, [script |-> "payto:" \o txp.changeAddress.address,
                             satoshis |-> changeAmount])
       ELSE outputs

\* _.reject(txp.outputOrder, order >= t.outputs.length)
FilteredOrder(outputOrder, n) == SelectSeq(outputOrder, LAMBDA order : order < n)

\* t.sortOutputs: the outputs in the given order (indices from 0); the
\* library refuses an order that is not a permutation.
IsPermutation(order, n) == Len(order) = n /\ Range(order) = 0..(n - 1)

totalInputs(txp) == SumSeq([i \in DOMAIN txp.inputs |-> txp.inputs[i].satoshis])

totalOutputs(outputs) == SumSeq([i \in DOMAIN outputs |-> outputs[i].satoshis])

\* The two $.checkState calls that end Utils.buildTx.
FeeCheckNoUpperBound(txp, outputs) ==
    totalInputs(txp) - totalOutputs(outputs) >= 0

FeeCheck(txp, outputs) ==
    /\ totalInputs(txp) - totalOutputs(outputs) >= 0
    /\ totalInputs(txp) - totalOutputs(outputs) <= MAX_TX_FEE

\* Utils.buildTx.  Proposals carry an outputs array (possibly empty), so
\* the single toAddress/amount branch for proposals without one is not taken.
buildTx(txp) ==
    IF txp.addressType \notin SCRIPT_TYPES THEN BuildFailed("invalid-state")
    ELSE IF \E i \in DOMAIN txp.outputs :
              ~Truthy(txp.outputs[i].script) /\ ~Truthy(txp.outputs[i].toAddress)
         THEN BuildFailed("invalid-state")
    ELSE
      LET declared == [i \in DOMAIN txp.outputs |-> Output(txp.outputs[i])]
          outputs == WithChange(txp, declared)
          outputOrder == FilteredOrder(txp.outputOrder, Len(outputs))
          sorted == IF Len(outputs) > 1
                    THEN [i \in DOMAIN outputOrder |-> outputs[outputOrder[i] + 1]]
                    ELSE outputs
      IN IF Len(outputs) > 1 /\ Len(outputs) # Len(outputOrder)
           THEN BuildFailed("invalid-state")
         ELSE IF Len(outputs) > 1 /\ ~IsPermutation(outputOrder, Len(outputs))
           THEN BuildFailed("invalid-sorting")
         ELSE IF ~FeeCheck(txp, sorted) THEN BuildFailed("invalid-state")
         ELSE Built([inputs |-> txp.inputs, outputs |-> sorted])

\* t.uncheckedSerialize(): the input outpoints (with the spending policy of
\* a multisig input) and the outputs, in order.
uncheckedSerialize(txp, t) ==
    "tx{in:" \o JoinStrings([i \in DOMAIN t.inputs |->
                  t.inputs[i].txid \o
                  (IF txp.addressType = "P2SH"
                   THEN "/" \o ToString(txp.requiredSignatures) ELSE "")], ",")
    \o ";out:" \o JoinStrings([i \in DOMAIN t.outputs |->
                  t.outputs[i].script \o "=" \o ToString(t.outputs[i].satoshis)], ",")
    \o "}"

(* ---------------------------- proposal inputs -------------------------- *)

Input(k, satoshis) == [txid |-> "utxo" \o ToString(k), satoshis |-> satoshis]

\* Input lists: 1 COIN, or 2 COIN + 1 over two inputs.
InputLists == {<<Input(1, COIN)>>, <<Input(1, COIN), Input(2, COIN + 1)>>}

\* Declared outputs: to an address, to a script (preferred over the
\* address), to neither.

OutputToA ==
    [toAddress |-> "addrA", script |-> Undefined, amount |-> COIN - 10000, message |-> Undefined]

OutputToC ==
    [toAddress |-> "addrC", script |-> Undefined, amount |-> 1, message |-> Undefined]

OutputToScript ==
    [toAddress |-> "addrB", script |-> "scriptB", amount |-> COIN + 1, message |-> Undefined]

DeclaredOutputs ==
    {OutputToA, OutputToC, OutputToScript,
     [toAddress |-> "addrC", script |-> Undefined, amount |-> 0, message |-> Undefined],
     [toAddress |-> Undefined, script |-> Undefined, amount |-> 1, message |-> Undefined]}

OutputLists == UNION {[1..len -> DeclaredOutputs] : len \in 0..MaxOutputs}

Identity(n) == [i \in 1..n |-> i - 1]

Reverse(n) == [i \in 1..n |-> n - i]

\* Output orders: a permutation of k indices, one with an out-of-range index
\* added, one truncated, one repeating an index.
OutputOrders ==
    UNION {{Identity(k), Reverse(k), Append(Identity(k), MaxOutputs + 1),
            [i \in 1..k |-> 0]} : k \in 0..(MaxOutputs + 1)}

Fees == {10000, 2 * COIN}

ChangeAddressFor(credentials) ==
    DeclaredAddress(credentials, Undefined, "m/1/5", "m/1/5", "exact")

\* The fields of a proposal that buildTx reads.
TxBody(addressType, inputs, outputs, fee, changeAddress, outputOrder) ==
    [addressType |-> addressType, requiredSignatures |-> 1, inputs |-> inputs,
     outputs |-> outputs, fee |-> fee, changeAddress |-> changeAddress,
     outputOrder |-> outputOrder]

(* ---------------------- checkTxProposalSignature ---------------------- *)

\* parseInt(version): <<n>> for a number, <<>> for NaN (an absent version).
parseInt(v) ==
    CASE v = "1" -> <<1>>
      [] v = "2" -> <<2>>
      [] v = "3" -> <<3>>
      [] v = "4" -> <<4>>
      [] OTHER -> <<>>

\* parseInt(txp.version) >= 3 ; a comparison with NaN is false.
VersionFromTwo(version) ==
    parseInt(version) # <<>> /\ parseInt(version)[1] >= 2

VersionSupported(version) ==
    parseInt(version) # <<>> /\ parseInt(version)[1] >= 3

\* _.find(credentials.publicKeyRing, ...): the indices of the ring entries
\* whose copayer identifier is the creatorId; the first one is the creator.
CreatorIndices(credentials, txp) ==
    {i \in DOMAIN credentials.publicKeyRing :
       xPubToCopayerId(credentials.publicKeyRing[i].xPubKey) = txp.creatorId}

FirstOf(S) == CHOOSE i \in S : \A j \in S : i <= j

\* The signer key of a proposal of the given creator: [rejected, key].
SigningPubKeyWithFallback(txp, creatorKeys) ==
    IF Truthy(txp.proposalSignaturePubKey)
         /\ Returned(verifyRequestPubKey(txp.proposalSignaturePubKey,
                                         txp.proposalSignaturePubKeySig,
                                         creatorKeys.xPubKey), TRUE)
    THEN [rejected |-> FALSE, key |-> txp.proposalSignaturePubKey]
    ELSE [rejected |-> FALSE, key |-> creatorKeys.requestPubKey]

SigningPubKey(txp, creatorKeys) ==
    IF Truthy(txp.proposalSignaturePubKey)
    THEN IF ~Returned(verifyRequestPubKey(txp.proposalSignaturePubKey,
                                          txp.proposalSignaturePubKeySig,
                                          creatorKeys.xPubKey), TRUE)
         THEN [rejected |-> TRUE, key |-> Undefined]
         ELSE [rejected |-> FALSE, key |-> txp.proposalSignaturePubKey]
    ELSE [rejected |-> FALSE, key |-> creatorKeys.requestPubKey]

\* Verifier.checkTxProposalSignature (credentials.isComplete() holds).
checkTxProposalSignature(credentials, txp) ==
    IF ~Truthy(txp.creatorId) THEN Throw("invalid-usage")
    ELSE IF CreatorIndices(credentials, txp) = {} THEN Return(FALSE)
    ELSE
      LET creatorKeys == credentials.publicKeyRing[FirstOf(CreatorIndices(credentials, txp))]
          signer == SigningPubKey(txp, creatorKeys)
          t == buildTx(txp)
          hash == uncheckedSerialize(txp, t.tx)
          verified == verifyMessage(hash, txp.proposalSignature, signer.key)
          changeOk == checkAddress(credentials, txp.changeAddress)
      IN IF signer.rejected THEN Return(FALSE)
         ELSE IF ~Truthy(signer.key) THEN Return(FALSE)
         ELSE IF ~VersionSupported(txp.version)
           THEN Throw("Transaction proposal not supported")
         ELSE IF ~t.ok THEN Throw(t.error)
         ELSE IF verified.kind = "throw" THEN verified
         ELSE IF ~verified.value THEN Return(FALSE)
         ELSE IF changeOk.kind = "throw" THEN changeOk
         ELSE IF ~changeOk.value THEN Return(FALSE)
         ELSE Return(TRUE)

\* Verifier.checkPaypro
checkPaypro(txp, payproOpts) ==
    IF VersionSupported(txp.version) /\ Len(txp.outputs) = 0 THEN Throw("TypeError")
    ELSE
      LET toAddress == IF VersionSupported(txp.version)
                       THEN txp.outputs[1].toAddress ELSE txp.toAddress
          amount == txp.amount
      IN Return(toAddress = payproOpts.toAddress /\ amount = payproOpts.amount)

\* Verifier.checkTxProposal ; opts.paypro is an object or absent.
checkTxProposal(credentials, txp, opts) ==
    LET signed == checkTxProposalSignature(credentials, txp)
        paypro == checkPaypro(txp, opts.paypro)
    IN IF signed.kind = "throw" THEN signed
       ELSE IF ~signed.value THEN Return(FALSE)
       ELSE IF opts.paypro = UndefinedObject THEN Return(TRUE)
       ELSE IF paypro.kind = "throw" THEN paypro
       ELSE IF ~paypro.value THEN Return(FALSE)
       ELSE Return(TRUE)

(* --------------------------- signed proposals -------------------------- *)

OneTimeKey == "oneTimeKey"

Versions == {"2", "3", Undefined}

CreatorIds == {xPubToCopayerId(XPub(i)) : i \in 1..MaxCopayers}
                \cup {"sha256(stranger)", Undefined}

\* Signatures of the one-time key: by the request-key authority of a ring
\* member, or none.
OneTimeKeySigs ==
    {SigOf(OneTimeKey, DeriveChild(XPub(i), REQUEST_KEY_AUTH)) : i \in 1..2}
      \cup {Undefined}

\* Proposal signatures over the serialization of the rebuilt body (or, when
\* it cannot be rebuilt, of the empty transaction): by a long-term request
\* key, by the one-time key, over another text, or none.
ProposalSigs(body) ==
    LET hash == uncheckedSerialize(body, buildTx(body).tx) IN
    {SigOf(hash, ReqKey(1)), SigOf(hash, OneTimeKey),
     SigOf("tx{in:;out:payto:thief=1}", ReqKey(1)), Undefined}

SumAmounts(outputs) == SumSeq([i \in DOMAIN outputs |-> outputs[i].amount])

\* The proposal bodies relayed for a wallet: output lists whose rebuilt
\* fee is within, below and above the bound; change addresses absent,
\* genuine, with a foreign key added, and derived elsewhere.
SignedBodies(credentials) ==
    {TxBody(t, inputs, outs, 10000, ca, order) :
       t \in {credentials.addressType, "P2WSH"}, inputs \in InputLists,
       outs \in {<<OutputToA>> , <<OutputToC, OutputToA>>,
                 <<OutputToScript, OutputToScript, OutputToScript>>},
       ca \in {UndefinedObject,
               DeclaredAddress(credentials, Undefined, "m/1/5", "m/1/5", "exact"),
               DeclaredAddress(credentials, Undefined, "m/1/5", "m/1/5", "extra"),
               DeclaredAddress(credentials, Undefined, "m/1/5", "m/0/0", "exact")},
       order \in {<<1, 0>>, <<2, 0, 1, 3>>}}

\* A proposal as relayed by the server.
Proposal(body, version, creatorId, pubKey, pubKeySig, signature) ==
    [addressType |-> body.addressType, requiredSignatures |-> body.requiredSignatures,
     inputs |-> body.inputs, outputs |-> body.outputs, fee |-> body.fee,
     changeAddress |-> body.changeAddress, outputOrder |-> body.outputOrder,
     version |-> version, creatorId |-> creatorId,
     proposalSignaturePubKey |-> pubKey, proposalSignaturePubKeySig |-> pubKeySig,
     proposalSignature |-> signature,
     toAddress |-> IF Len(body.outputs) > 0 THEN body.outputs[1].toAddress ELSE Undefined,
     amount |-> SumAmounts(body.outputs)]

(* ------------------------- checkProposalCreation ----------------------- *)

\* sjcl.encrypt(key, message)
encryptMessage(message, encryptingKey) ==
    "aes{" \o message \o "}key{" \o encryptingKey \o "}"

Plaintexts == {"hello", "memo"}

\* sjcl.decrypt(key, cyphertextJson) succeeds on a ciphertext made under key.
Decrypts(cyphertextJson, encryptingKey) ==
    \E m \in Plaintexts : cyphertextJson = encryptMessage(m, encryptingKey)

\* Utils.decryptMessage: the plaintext, or on any failure the argument itself.
decryptMessage(cyphertextJson, encryptingKey) ==
    IF Decrypts(cyphertextJson, encryptingKey)
    THEN CHOOSE m \in Plaintexts : cyphertextJson = encryptMessage(m, encryptingKey)
    ELSE cyphertextJson

strEqual(str1, str2) == (~Truthy(str1) /\ ~Truthy(str2)) \/ str1 = str2

\* The loop body of checkProposalCreation for stored output o1 and
\* submitted output o2: TRUE when the pair passes.
OutputMatches(o1, o2, encryptingKey) ==
    /\ strEqual(o1.toAddress, o2.toAddress)
    /\ strEqual(o1.script, o2.script)
    /\ o1.amount = o2.amount
    /\ strEqual(o1.message, decryptMessage(o2.message, encryptingKey))

\* Verifier.checkProposalCreation(args, txp, encryptingKey).  feePerKb is
\* <<n>> for a number and <<>> when absent; customData is the canonical
\* text of the object, or Undefined.
checkProposalCreation(args, txp, encryptingKey) ==
    LET changeAddress == IF txp.changeAddress # UndefinedObject
                         THEN txp.changeAddress.address ELSE Undefined
    IN IF Len(txp.outputs) # Len(args.outputs) THEN Return(FALSE)
       ELSE IF \E i \in DOMAIN txp.outputs :
                 ~OutputMatches(txp.outputs[i], args.outputs[i], encryptingKey)
         THEN Return(FALSE)
       ELSE IF Truthy(args.changeAddress) /\ ~strEqual(changeAddress, args.changeAddress)
         THEN Return(FALSE)
       ELSE IF args.feePerKb # <<>> /\ txp.feePerKb # args.feePerKb THEN Return(FALSE)
       ELSE IF ~strEqual(txp.payProUrl, args.payProUrl) THEN Return(FALSE)
       ELSE IF ~strEqual(txp.message, decryptMessage(args.message, encryptingKey))
         THEN Return(FALSE)
       ELSE IF Truthy(args.customData) /\ txp.customData # args.customData
         THEN Return(FALSE)
       ELSE Return(TRUE)

EncryptingKey == "sharedKey"

\* A submitted output and the output the server stored for it.
OutputPair(kind) ==
    LET sent == [toAddress |-> "addrA", script |-> Undefined, amount |-> 1000,
                 message |-> encryptMessage("hello", EncryptingKey)]
        kept == [toAddress |-> "addrA", script |-> Undefined, amount |-> 1000,
                 message |-> "hello"]
    IN CASE kind = "same" -> [args |-> sent, txp |-> kept]
         [] kind = "amount" -> [args |-> sent, txp |-> [kept EXCEPT !.amount = 1001]]
         [] kind = "toAddress" -> [args |-> sent, txp |-> [kept EXCEPT !.toAddress = "addrB"]]
         [] kind = "script" ->
              [args |-> [sent EXCEPT !.script = "scriptA", !.toAddress = Undefined],
               txp |-> [kept EXCEPT !.script = "scriptB", !.toAddress = Undefined]]
         [] kind = "message" -> [args |-> sent, txp |-> [kept EXCEPT !.message = "memo"]]
         [] kind = "wrongkey" ->
              [args |-> [sent EXCEPT !.message = encryptMessage("hello", "otherKey")],
               txp |-> kept]
         [] kind = "undecrypted" ->
              [args |-> [sent EXCEPT !.message = "{malformed"],
               txp |-> [kept EXCEPT !.message = "{malformed"]]

PairKinds == {"same", "amount", "toAddress", "script", "message", "wrongkey", "undecrypted"}

OutputPairLists == UNION {[1..len -> {OutputPair(k) : k \in PairKinds}] : len \in 0..MaxOutputs}

\* The other compared fields, as submitted and as stored.
ChangePairs ==
    {<<Undefined, [address |-> "change1"]>>, <<"change1", [address |-> "change1"]>>,
     <<"change1", [address |-> "change2"]>>, <<"change1", UndefinedObject>>}

FeePairs == {<< <<>>, <<2000>> >>, << <<1000>>, <<1000>> >>, << <<1000>>, <<2000>> >>}

UrlPairs == {<<Undefined, Undefined>>, <<"https://pay", "https://pay">>,
             <<"https://pay", "https://evil">>}

MessagePairs ==
    {<<Undefined, Undefined>>, <<encryptMessage("memo", EncryptingKey), "memo">>,
     <<encryptMessage("memo", EncryptingKey), "hello">>,
     <<encryptMessage("memo", "otherKey"), "memo">>,
     <<"{malformed", "{malformed">>}

CustomDataPairs ==
    {<<Undefined, Undefined>>, <<"{a:1}", "{a:1}">>, <<"{a:1}", "{a:2}">>,
     <<"{a:1}", Undefined>>, <<Undefined, "{a:1}">>}

(* ------------------------------- actions ------------------------------- *)

Init ==
    /\ pc = "idle"
    /\ call = [op |-> "none"]
    /\ ret = [kind |-> "none"]

CheckCopayers ==
    /\ pc = "idle"
    /\ \E n \in 1..MaxCopayers, copayers \in Rosters :
         LET credentials == Credentials(n, "P2SH") IN
         /\ call' = [op |-> "checkCopayers", credentials |-> credentials,
                     copayers |-> copayers]
         /\ ret' = checkCopayers(credentials, copayers)
    /\ pc' = "done"

CheckAddress ==
    /\ pc = "idle"
    /\ \E n \in 1..MaxCopayers, addressType \in SCRIPT_TYPES :
         LET credentials == Credentials(n, addressType) IN
         \E address \in {UndefinedObject} \cup
                {DeclaredAddress(credentials, t, p, q, k) :
                   t \in AddressTypes \cup {Undefined}, p \in Paths, q \in Paths,
                   k \in KeyKinds} :
           /\ call' = [op |-> "checkAddress", credentials |-> credentials,
                       address |-> address]
           /\ ret' = checkAddress(credentials, address)
    /\ pc' = "done"

BuildTx ==
    /\ pc = "idle"
    /\ \E addressType \in AddressTypes, inputs \in InputLists,
          outputs \in OutputLists, fee \in Fees,
          changeAddress \in {UndefinedObject, ChangeAddressFor(Credentials(1, "P2SH"))},
          outputOrder \in OutputOrders :
         LET txp == TxBody(addressType, inputs, outputs, fee, changeAddress, outputOrder) IN
         /\ call' = [op |-> "buildTx", txp |-> txp]
         /\ ret' = buildTx(txp)
    /\ pc' = "done"

CheckTxProposalSignature ==
    /\ pc = "idle"
    /\ \E n \in 1..MaxCopayers, addressType \in SCRIPT_TYPES :
         LET credentials == Credentials(n, addressType) IN
         \E body \in SignedBodies(credentials), version \in Versions,
            creatorId \in CreatorIds, pubKey \in {Undefined, OneTimeKey},
            pubKeySig \in OneTimeKeySigs :
           \E signature \in ProposalSigs(body) :
             LET txp == Proposal(body, version, creatorId, pubKey, pubKeySig, signature) IN
             /\ call' = [op |-> "checkTxProposalSignature",
                         credentials |-> credentials, txp |-> txp]
             /\ ret' = checkTxProposalSignature(credentials, txp)
    /\ pc' = "done"

CheckProposalCreation ==
    /\ pc = "idle"
    /\ \E pairs \in OutputPairLists, dropLast \in BOOLEAN, change \in ChangePairs,
          fee \in FeePairs, url \in UrlPairs, message \in MessagePairs,
          customData \in CustomDataPairs :
         LET sent == [i \in DOMAIN pairs |-> pairs[i].args]
             kept == [i \in DOMAIN pairs |-> pairs[i].txp]
             args == [outputs |-> sent, changeAddress |-> change[1],
                      feePerKb |-> fee[1], payProUrl |-> url[1],
                      message |-> message[1], customData |-> customData[1]]
             txp == [outputs |-> IF dropLast /\ Len(kept) > 0
                                 THEN SubSeq(kept, 1, Len(kept) - 1) ELSE kept,
                     changeAddress |-> change[2], feePerKb |-> fee[2],
                     payProUrl |-> url[2], message |-> message[2],
                     customData |-> customData[2]]
         IN /\ call' = [op |-> "checkProposalCreation", args |-> args, txp |-> txp,
                        encryptingKey |-> EncryptingKey]
            /\ ret' = checkProposalCreation(args, txp, EncryptingKey)
    /\ pc' = "done"

CheckPaypro ==
    /\ pc = "idle"
    /\ \E body \in SignedBodies(Credentials(1, "P2SH")), version \in Versions,
          toAddress \in {"addrA", "addrC"},
          amount \in {1, COIN - 10000, COIN - 9999} :
         LET txp == Proposal(body, version, xPubToCopayerId(XPub(1)), Undefined,
                             Undefined, Undefined)
             paypro == [toAddress |-> toAddress, amount |-> amount]
         IN /\ call' = [op |-> "checkPaypro", txp |-> txp, paypro |-> paypro]
            /\ ret' = checkPaypro(txp, paypro)
    /\ pc' = "done"

CheckTxProposal ==
    /\ pc = "idle"
    /\ \E n \in 1..MaxCopayers :
         LET credentials == Credentials(n, "P2SH") IN
         \E body \in SignedBodies(credentials), version \in Versions,
            creatorId \in {xPubToCopayerId(XPub(1)), "sha256(stranger)"},
            paypro \in {UndefinedObject} \cup
                       {[toAddress |-> a, amount |-> v] :
                          a \in {"addrA", "addrC"}, v \in {1, COIN - 10000, COIN - 9999}} :
           \E signature \in ProposalSigs(body) :
             LET txp == Proposal(body, version, creatorId, Undefined, Undefined, signature)
                 opts == [paypro |-> paypro]
             IN /\ call' = [op |-> "checkTxProposal", credentials |-> credentials,
                            txp |-> txp, opts |-> opts]
                /\ ret' = checkTxProposal(credentials, txp, opts)
    /\ pc' = "done"

Next ==
    \/ CheckCopayers
    \/ CheckProposalCreation
    \/ CheckPaypro
    \/ CheckTxProposal
    \/ CheckTxProposalSignature
    \/ BuildTx
    \/ CheckAddress

Spec == Init /\ [][Next]_vars

(* ------------------------------------------------------------------------ *)
(* Claims about checkCopayers                                               *)
(* ------------------------------------------------------------------------ *)

IsCheckCopayers == pc = "done" /\ call.op = "checkCopayers"

HasRepeatedXPubKey(copayers) ==
    \E i, j \in DOMAIN copayers : i # j /\ copayers[i].xPubKey = copayers[j].xPubKey

EntryWellSigned(credentials, c) ==
    LET n == IF c.encryptedName # Undefined THEN c.encryptedName ELSE c.name IN
    /\ n # Undefined
    /\ c.xPubKey # Undefined
    /\ c.requestPubKey # Undefined
    /\ c.signature # Undefined
    /\ c.signature = SigOf(n \o "|" \o c.xPubKey \o "|" \o c.requestPubKey,
                           ToPublicKey(credentials.walletPrivKey))

RosterConditions(credentials, copayers) ==
    /\ Len(copayers) = credentials.n
    /\ \A i \in DOMAIN copayers : EntryWellSigned(credentials, copayers[i])
    /\ \E i \in DOMAIN copayers : copayers[i].xPubKey = credentials.xPubKey

\* C6: checkCopayers returns false whenever two roster entries carry the
\* same xPubKey.
C6_RepeatedXPubKeyRejected ==
    (IsCheckCopayers /\ HasRepeatedXPubKey(call.copayers)) => Returned(ret, FALSE)

\* C7: checkCopayers returns true only if the roster has credentials.n
\* entries, every entry has its fields and a signature that verifies over
\* name|xPubKey|requestPubKey under the wallet public key, and the local
\* xPubKey is in the roster; a roster of pairwise-distinct entries meeting
\* all of these returns true.
C7_CheckCopayersContract ==
    IsCheckCopayers =>
      /\ ret.kind = "return"
      /\ Returned(ret, TRUE) => RosterConditions(call.credentials, call.copayers)
      /\ (RosterConditions(call.credentials, call.copayers)
          /\ ~HasRepeatedXPubKey(call.copayers)) => Returned(ret, TRUE)

C7_Witness ==
    /\ IsCheckCopayers
    /\ Len(call.copayers) = MaxCopayers
    /\ ~HasRepeatedXPubKey(call.copayers)
    /\ \E i \in DOMAIN call.copayers : call.copayers[i].encryptedName # Undefined
    /\ Returned(ret, TRUE)

(* ------------------------------------------------------------------------ *)
(* Claims about checkAddress                                                *)
(* ------------------------------------------------------------------------ *)

IsCheckAddress == pc = "done" /\ call.op = "checkAddress" /\ call.address # UndefinedObject

\* The address the credentials derive at the declared path and type.
Rederived(credentials, address) ==
    LET type == IF address.type # Undefined THEN address.type ELSE credentials.addressType
        keys == [i \in DOMAIN credentials.publicKeyRing |->
                   credentials.publicKeyRing[i].xPubKey \o "/" \o address.path]
    IN [derivable |-> type = "P2SH" \/ (type = "P2PKH" /\ Len(keys) = 1),
        address |-> IF type = "P2SH"
                    THEN createMultisig(keys, credentials.m, credentials.network)
                    ELSE fromPublicKey(keys[1], credentials.network),
        publicKeys |-> keys]

\* C5: checkAddress returns true if and only if the re-derived address
\* string equals the declared one and the set of re-derived public keys
\* equals the set of declared public keys.
C5_CheckAddressSetEqual ==
    (IsCheckAddress /\ ret.kind = "return") =>
      LET local == Rederived(call.credentials, call.address) IN
      Returned(ret, TRUE) <=>
        /\ local.address = call.address.address
        /\ Range(local.publicKeys) = Range(call.address.publicKeys)

(* ------------------------------------------------------------------------ *)
(* Claims about buildTx                                                     *)
(* ------------------------------------------------------------------------ *)

IsBuildTx == pc = "done" /\ call.op = "buildTx"

\* The outputs of the transaction rebuilt from a proposal, change included.
RebuiltOutputs(txp) ==
    WithChange(txp, [i \in DOMAIN txp.outputs |-> Output(txp.outputs[i])])

Satoshis(outputs) == SumSeq([i \in DOMAIN outputs |-> outputs[i].satoshis])

InputValue(txp) == SumSeq([i \in DOMAIN txp.inputs |-> txp.inputs[i].satoshis])

\* A recognized addressType, outputs with a destination, and an output
\* order that (filtered) permutes the rebuilt outputs.
Rebuildable(txp) ==
    /\ txp.addressType \in {"P2SH", "P2PKH"}
    /\ \A i \in DOMAIN txp.outputs :
         txp.outputs[i].script # Undefined \/ txp.outputs[i].toAddress # Undefined
    /\ LET n == Len(RebuiltOutputs(txp))
           order == SelectSeq(txp.outputOrder, LAMBDA k : k < n)
       IN n > 1 => (Len(order) = n /\ {order[i] : i \in 1..Len(order)} = 0..(n - 1))

IsCheckTxProposalSignature == pc = "done" /\ call.op = "checkTxProposalSignature"

IsCheckTxProposal == pc = "done" /\ call.op = "checkTxProposal"

IsCheckPaypro == pc = "done" /\ call.op = "checkPaypro"

\* Ring entry e vouches for key as the signer of txp: the entry's
\* requestPubKey when the proposal carries no one-time key, else the
\* one-time key, signed by the key derived from the entry's xPubKey.
TrustedSigner(txp, e, key) ==
    IF txp.proposalSignaturePubKey = Undefined
    THEN key = e.requestPubKey /\ key # Undefined
    ELSE /\ key = txp.proposalSignaturePubKey
         /\ txp.proposalSignaturePubKeySig =
              SigOf(key, e.xPubKey \o "/" \o REQUEST_KEY_AUTH)

CreatorEntries(credentials, txp) ==
    {credentials.publicKeyRing[i] : i \in
       {j \in DOMAIN credentials.publicKeyRing :
          "sha256(" \o credentials.publicKeyRing[j].xPubKey \o ")" = txp.creatorId}}

SignerKeys(credentials, txp) ==
    {txp.proposalSignaturePubKey} \cup
      {credentials.publicKeyRing[i].requestPubKey : i \in DOMAIN credentials.publicKeyRing}

\* C1: checkTxProposalSignature returns true only if the creatorId is the
\* copayer identifier of a ring entry, the signer key is that entry's
\* requestPubKey (no one-time key) or the one-time key whose signature
\* verified under the key derived from the creator's xPubKey, the
\* proposalSignature verifies over the serialization of the rebuilt
\* transaction under that key, and checkAddress accepts the change address.
C1_SignatureAcceptedOnlyIf ==
    (IsCheckTxProposalSignature /\ Returned(ret, TRUE)) =>
      /\ \E e \in CreatorEntries(call.credentials, call.txp) :
           \E key \in SignerKeys(call.credentials, call.txp) :
             /\ TrustedSigner(call.txp, e, key)
             /\ buildTx(call.txp).ok
             /\ call.txp.proposalSignature =
                  SigOf(uncheckedSerialize(call.txp, buildTx(call.txp).tx), key)
      /\ call.txp.changeAddress # UndefinedObject
      /\ Returned(checkAddress(call.credentials, call.txp.changeAddress), TRUE)

\* A proposal signed with a vouched-for one-time key is accepted.
C1_Witness ==
    /\ IsCheckTxProposalSignature
    /\ Returned(ret, TRUE)
    /\ call.txp.proposalSignaturePubKey = OneTimeKey
    /\ Len(call.credentials.publicKeyRing) > 1

\* C2: for a proposal with a non-empty creatorId and version >= 3,
\* checkTxProposalSignature and checkTxProposal end by returning a boolean,
\* never by an escaping error.
C2_AlwaysReturnsBoolean ==
    ((IsCheckTxProposalSignature \/ IsCheckTxProposal)
       /\ call.txp.creatorId # Undefined /\ call.txp.version \in {"3", "4"})
      => ret.kind = "return"

IsUnsupported(r) == r.kind = "throw" /\ r.error = "Transaction proposal not supported"

\* C3 as stated: every proposal with a non-empty creatorId whose version
\* is < 3 ends in the unsupported-format error, whatever its other fields.
C3_LegacyAlwaysUnsupported ==
    (IsCheckTxProposalSignature /\ call.txp.creatorId # Undefined
       /\ call.txp.version \in {"1", "2"})
      => IsUnsupported(ret)

\* C3 as amended: a proposal whose version is < 3 is never accepted; it
\* ends in the unsupported-format error exactly when its creatorId matches
\* a ring entry and that (first matching) entry vouches for a signer key,
\* and returns false otherwise.
C3_LegacyUnsupportedOnceSignerKnown ==
    (IsCheckTxProposalSignature /\ call.txp.creatorId # Undefined
       /\ call.txp.version \in {"1", "2"})
      => LET ring == call.credentials.publicKeyRing
             entries == CreatorEntries(call.credentials, call.txp)
             first == ring[CHOOSE i \in DOMAIN ring :
                             /\ ring[i] \in entries
                             /\ \A j \in 1..(i - 1) : ring[j] \notin entries]
             known == /\ entries # {}
                      /\ \E key \in SignerKeys(call.credentials, call.txp) :
                           TrustedSigner(call.txp, first, key)
         IN /\ ~Returned(ret, TRUE)
            /\ known => IsUnsupported(ret)
            /\ ~known => Returned(ret, FALSE)

C3_Witness ==
    /\ IsCheckTxProposalSignature
    /\ call.txp.version = "2"
    /\ call.txp.proposalSignaturePubKey = OneTimeKey
    /\ IsUnsupported(ret)

\* checkTxProposal in terms of its two checks.
TxProposalContract ==
    IsCheckTxProposal =>
      (Returned(ret, TRUE) <=>
         /\ Returned(checkTxProposalSignature(call.credentials, call.txp), TRUE)
         /\ call.opts.paypro # UndefinedObject =>
              Returned(checkPaypro(call.txp, call.opts.paypro), TRUE))

\* C10: checkPaypro returns true iff the first output's address
\* and amount (legacy: the proposal's toAddress and amount) equal the
\* target's; checkTxProposal is the signature check and, with a target,
\* checkPaypro.
C10_PayproFirstOutputAmount ==
    /\ (IsCheckPaypro /\ ret.kind = "return") =>
         (Returned(ret, TRUE) <=>
            IF call.txp.version \in {"3", "4"}
            THEN /\ call.txp.outputs[1].toAddress = call.paypro.toAddress
                 /\ call.txp.outputs[1].amount = call.paypro.amount
            ELSE /\ call.txp.toAddress = call.paypro.toAddress
                 /\ call.txp.amount = call.paypro.amount)
    /\ TxProposalContract

(* ------------------------------------------------------------------------ *)
(* Claims about checkProposalCreation                                       *)
(* ------------------------------------------------------------------------ *)

IsCheckProposalCreation == pc = "done" /\ call.op = "checkProposalCreation"

StoredChangeAddress(txp) ==
    IF txp.changeAddress = UndefinedObject THEN Undefined ELSE txp.changeAddress.address

\* A discrepancy in one of the compared fields other than the messages.
FieldDiscrepancy(args, txp) ==
    \/ Len(txp.outputs) # Len(args.outputs)
    \/ \E i \in DOMAIN txp.outputs \cap DOMAIN args.outputs :
         \/ txp.outputs[i].toAddress # args.outputs[i].toAddress
         \/ txp.outputs[i].script # args.outputs[i].script
         \/ txp.outputs[i].amount # args.outputs[i].amount
    \/ txp.payProUrl # args.payProUrl
    \/ txp.customData # args.customData
    \/ (args.changeAddress # Undefined /\ StoredChangeAddress(txp) # args.changeAddress)
    \/ (args.feePerKb # <<>> /\ txp.feePerKb # args.feePerKb)

\* The stored messages are the plaintexts of the submitted ones.
MessagesDecrypted(args, txp, key) ==
    /\ \A i \in DOMAIN txp.outputs \cap DOMAIN args.outputs :
         \/ args.outputs[i].message = encryptMessage(txp.outputs[i].message, key)
         \/ (args.outputs[i].message = Undefined /\ txp.outputs[i].message = Undefined)
    /\ \/ (txp.message # Undefined /\ args.message = encryptMessage(txp.message, key))
       \/ (args.message = Undefined /\ txp.message = Undefined)

\* C8: checkProposalCreation returns false on any single field discrepancy
\* between the submitted and the stored proposal (customData present only
\* in the stored one included) and true when the two are field-identical.
C8_AnyDiscrepancyRejected ==
    IsCheckProposalCreation =>
      /\ FieldDiscrepancy(call.args, call.txp) => Returned(ret, FALSE)
      /\ (~FieldDiscrepancy(call.args, call.txp)
          /\ MessagesDecrypted(call.args, call.txp, call.encryptingKey))
           => Returned(ret, TRUE)

\* A submitted message that is present and does not decrypt under the key.
FailsToDecrypt(message, key) ==
    message # Undefined /\ \A m \in Plaintexts : message # encryptMessage(m, key)

\* C9: whenever decryption of a per-output message or of the overall
\* message fails, checkProposalCreation returns false (it neither raises
\* nor returns true).
C9_DecryptionFailureRejected ==
    (IsCheckProposalCreation
       /\ \/ FailsToDecrypt(call.args.message, call.encryptingKey)
          \/ \E i \in DOMAIN call.args.outputs :
               FailsToDecrypt(call.args.outputs[i].message, call.encryptingKey))
      => Returned(ret, FALSE)

====
